---- MODULE Spec2Model ----
(***************************************************************************)
(* The tx middleware chain of x/auth/middleware: validateBasicMiddleware, *)
(* txTimeoutHeightMiddleware, validateMemoMiddleware and                   *)
(* consumeTxSizeGasMiddleware, each a tx.Handler with the three operations *)
(* CheckTx, DeliverTx and SimulateTx, wrapped around a terminal handler.   *)
(*                                                                         *)
(* One request at a time travels down the chain.  `run` is the state of    *)
(* the call in flight: where it stands in the chain, the gas meter of its  *)
(* context, what it returned, and a record of what the handlers did.       *)
(*                                                                         *)
(* Spec sends requests of every kind down the chain, each on its own.      *)
(* SpecSeq sends requests one after the other and keeps the first of them  *)
(* in `first`, to compare the later ones with.  SpecConc has two           *)
(* goroutines call the chain at the same time: one of them is running,     *)
(* with its request in tx, ctx and run, the request of the other waits in  *)
(* `other`, and the scheduler switches between them at any step.           *)
(***************************************************************************)
EXTENDS Integers, Sequences, FiniteSets, TLC

VARIABLES
    chain,  \* the stages of the chain built at construction, outermost first
    tx,     \* the sdk.Tx of the request in flight
    ctx,    \* its sdk.Context: block height, recheck flag, tx bytes, meter limit, store
    run,    \* the call in flight
    first,  \* the first request the chain has handled, and how it ended
    other   \* the request of the goroutine that is not running

vars == <<chain, tx, ctx, run, first, other>>

(***************************************************************************)
(* Bounds of the model.                                                    *)
(***************************************************************************)
\* uint64 / int64 are modelled as WordBits-bit words.
WordBits == 14
\* longest memo, in characters
MaxMemoChars == 3
\* most signers of one transaction
MaxSigners == 2
\* deepest nesting of MultiSignatureData inside MultiSignatureData
MaxSigDepth == 2

Word == 2 ^ WordBits
MaxUint64 == Word - 1
MaxInt64 == (2 ^ (WordBits - 1)) - 1
MinInt64 == 0 - (2 ^ (WordBits - 1))

\* Go's uint64(x) of a signed word: two's complement reinterpretation.
Uint64(x) == x % Word

\* Go's a * b on uint64 (sdk.Gas): the product wraps.
MulGas(a, b) == (a * b) % Word

Modes == {"CheckTx", "DeliverTx", "SimulateTx"}

Stages == {"validateBasic", "txTimeoutHeight", "validateMemo", "consumeTxSizeGas"}

(***************************************************************************)
(* Errors.  Every error is a record of the same shape so that any two can  *)
(* be compared; a and b are the two numbers a wrapped message is formatted *)
(* with.                                                                   *)
(***************************************************************************)
NoErr == [kind |-> "nil", msg |-> "", a |-> 0, b |-> 0]

ErrTxDecode(m) == [kind |-> "ErrTxDecode", msg |-> m, a |-> 0, b |-> 0]

ErrTxTimeoutHeight(height, timeout) ==
    [kind |-> "ErrTxTimeoutHeight", msg |-> "block height: %d, timeout height: %d",
     a |-> height, b |-> timeout]

ErrMemoTooLarge(max, got) ==
    [kind |-> "ErrMemoTooLarge",
     msg |-> "maximum number of characters is %d but received %d characters",
     a |-> max, b |-> got]

\* what tx.ValidateBasic of a malformed transaction returns (opaque to the chain)
ErrValidateBasic == [kind |-> "ErrInvalidRequest", msg |-> "validate basic", a |-> 0, b |-> 0]

\* what GetSignaturesV2 returns when it fails (opaque to the chain)
ErrGetSignatures == [kind |-> "ErrGetSignaturesV2", msg |-> "signatures", a |-> 0, b |-> 0]

\* an error of the terminal handler (opaque to the chain)
ErrTerminal == [kind |-> "ErrTerminal", msg |-> "terminal", a |-> 0, b |-> 0]

\* the value the gas meter panics with
ErrorOutOfGas == [kind |-> "ErrorOutOfGas", msg |-> "txSize", a |-> 0, b |-> 0]

(***************************************************************************)
(* signing.SignatureData: nil, *SingleSignatureData or *MultiSignatureData. *)
(* All three have the same fields so that they can sit in one sequence.    *)
(***************************************************************************)
NilData == [type |-> "nil", signature |-> <<>>, signatures |-> <<>>]

SingleSignatureData(sig) == [type |-> "single", signature |-> sig, signatures |-> <<>>]

MultiSignatureData(sigs) == [type |-> "multi", signature |-> <<>>, signatures |-> sigs]

RECURSIVE isIncompleteSignature(_)

\* A plausible slip: a multi-signature with no members taken for complete.
isIncompleteSignature_EmptyMultiComplete(data) ==
    IF data.type = "nil"
    THEN TRUE
    ELSE CASE data.type = "single" -> Len(data.signature) = 0
           [] data.type = "multi" ->
                \E k \in 1..Len(data.signatures) : isIncompleteSignature(data.signatures[k])
           [] OTHER -> FALSE

\* isIncompleteSignature tests whether SignatureData is fully filled in.
isIncompleteSignature(data) ==
    IF data.type = "nil"
    THEN TRUE
    ELSE CASE data.type = "single" -> Len(data.signature) = 0
           [] data.type = "multi" ->
                IF Len(data.signatures) = 0
                THEN TRUE
                ELSE \E k \in 1..Len(data.signatures) :
                        isIncompleteSignature(data.signatures[k])
           [] OTHER -> FALSE

(***************************************************************************)
(* Public keys and accounts.  A key is known to the chain by two things:   *)
(* whether it is a *multisig.LegacyAminoPubKey, and the length of the      *)
(* amino encoding of the legacytx.StdSignature that pairs it with          *)
(* simSecp256k1Sig.                                                        *)
(***************************************************************************)
NilPubKey == [kind |-> "nil", stdSigLen |-> 0]

\* the placeholder key of simulation: a secp256k1 key, not a multisig key
simSecp256k1Pubkey == [kind |-> "secp256k1", stdSigLen |-> 106]

\* len(legacy.Cdc.MustMarshal(legacytx.StdSignature{simSecp256k1Sig, pubkey}))
StdSignatureLen(pubkey) == pubkey.stdSigLen

\* pubkey.(*multisig.LegacyAminoPubKey)
IsLegacyAminoPubKey(pubkey) == pubkey.kind = "multisig"

NoAccount == [exists |-> FALSE, pubkey |-> NilPubKey]

\* ak.GetAccount(ctx, addr) and ak.GetParams(ctx): reads of the store of the context
GetAccount(c, addr) == c.accounts[addr]

\* A plausible slip: the parameters read once and kept in the handler, every
\* later request served from the copy.
GetParams_Cached(c) == IF first.op # "none" THEN first.ctx.params ELSE c.params

GetParams(c) == c.params

(***************************************************************************)
(* The call in flight.                                                     *)
(*   pc    "idle" no request yet; "call" the handler at chain position pos *)
(*         is about to run op; "signers" consumeTxSizeGasMiddleware's      *)
(*         SimulateTx is in its loop over the signers, at signer i;       *)
(*         "returned" the outermost handler returned; "panicked" the gas   *)
(*         meter panicked and the panic left the chain                     *)
(*   gas   gas consumed on the context's gas meter                         *)
(*   log   what happened so far, in order                                  *)
(***************************************************************************)
Event(ev, stage, op, n, ok) == [ev |-> ev, stage |-> stage, op |-> op, n |-> n, ok |-> ok]

Logged(r, e) == [r EXCEPT !.log = Append(@, e)]

IdleRun ==
    [pc |-> "idle", pos |-> 0, op |-> "none", gas |-> 0, resp |-> "none", err |-> NoErr,
     sigs |-> <<>>, i |-> 0, log |-> <<>>]

\* the outermost handler of the chain is called with op
NewRun(op) == [IdleRun EXCEPT !.pc = "call", !.pos = 1, !.op = op]

\* the handler of `stage` starts running
Enter(r, stage) == Logged(r, Event("enter", stage, r.op, r.pos, TRUE))

\* return abci.Response...{}, err
ReturnErr(r, err) == [r EXCEPT !.pc = "returned", !.resp = "empty", !.err = err]

\* return <stage>.next.<op>(ctx, tx, req): the next handler runs op and what it
\* returns is returned unchanged
CallNext(r, stage, op) ==
    [Logged(r, Event("next", stage, op, r.pos + 1, TRUE)) EXCEPT
        !.pc = "call", !.pos = r.pos + 1, !.op = op]

Panicked(r) == r.pc = "panicked"

(***************************************************************************)
(* The gas meter of the context (sdkCtx.GasMeter()).  ConsumeGas adds the  *)
(* amount to what is consumed; when the sum would pass the limit it panics *)
(* instead, and the panic is the meter's, not the caller's.                *)
(***************************************************************************)
ConsumeGas(c, r, amount, stage) ==
    IF r.gas + amount > c.gasLimit
    THEN [Logged(r, Event("ConsumeGas", stage, r.op, amount, FALSE)) EXCEPT
            !.pc = "panicked", !.resp = "none", !.err = ErrorOutOfGas]
    ELSE [Logged(r, Event("ConsumeGas", stage, r.op, amount, TRUE)) EXCEPT
            !.gas = r.gas + amount]

(***************************************************************************)
(* validateBasicMiddleware                                                 *)
(***************************************************************************)
\* tx.ValidateBasic(): the transaction's own check, opaque to the chain
ValidateBasic(t) == IF t.malformed THEN ErrValidateBasic ELSE NoErr

\* A plausible slip: the recheck exemption applied to DeliverTx as well.
validateBasicMiddleware_DeliverTx_SkipsOnRecheck(c, t, r) ==
    IF c.recheck
    THEN CallNext(r, "validateBasic", "DeliverTx")
    ELSE LET r1 == Logged(r, Event("ValidateBasic", "validateBasic", r.op, 0, TRUE))
         IN  IF ValidateBasic(t) # NoErr
             THEN ReturnErr(r1, ValidateBasic(t))
             ELSE CallNext(r1, "validateBasic", "DeliverTx")

\* A plausible slip: an exemption like that of the recheck for a transaction
\* the chain has seen before, remembered in the chain.
validateBasicMiddleware_SimulateTx_SkipsSeen(c, t, r) ==
    IF first.op # "none" /\ first.tx = t
    THEN CallNext(r, "validateBasic", "SimulateTx")
    ELSE LET r1 == Logged(r, Event("ValidateBasic", "validateBasic", r.op, 0, TRUE))
         IN  IF ValidateBasic(t) # NoErr
             THEN ReturnErr(r1, ValidateBasic(t))
             ELSE CallNext(r1, "validateBasic", "SimulateTx")

validateBasicMiddleware_CheckTx(c, t, r) ==
    IF c.recheck
    THEN CallNext(r, "validateBasic", "CheckTx")
    ELSE LET r1 == Logged(r, Event("ValidateBasic", "validateBasic", r.op, 0, TRUE))
         IN  IF ValidateBasic(t) # NoErr
             THEN ReturnErr(r1, ValidateBasic(t))
             ELSE CallNext(r1, "validateBasic", "CheckTx")

validateBasicMiddleware_DeliverTx(c, t, r) ==
    LET r1 == Logged(r, Event("ValidateBasic", "validateBasic", r.op, 0, TRUE))
    IN  IF ValidateBasic(t) # NoErr
        THEN ReturnErr(r1, ValidateBasic(t))
        ELSE CallNext(r1, "validateBasic", "DeliverTx")

validateBasicMiddleware_SimulateTx(c, t, r) ==
    LET r1 == Logged(r, Event("ValidateBasic", "validateBasic", r.op, 0, TRUE))
    IN  IF ValidateBasic(t) # NoErr
        THEN ReturnErr(r1, ValidateBasic(t))
        ELSE CallNext(r1, "validateBasic", "SimulateTx")

(***************************************************************************)
(* txTimeoutHeightMiddleware                                               *)
(***************************************************************************)
checkTimeout(c, t) ==
    IF ~t.hasTimeoutHeight
    THEN ErrTxDecode("expected tx to implement TxWithTimeoutHeight")
    ELSE IF t.timeoutHeight > 0 /\ Uint64(c.blockHeight) > t.timeoutHeight
         THEN ErrTxTimeoutHeight(c.blockHeight, t.timeoutHeight)
         ELSE NoErr

\* A plausible slip: the error of checkTimeout dropped, the next handler called anyway.
txTimeoutHeightMiddleware_CheckTx_IgnoresErr(c, t, r) ==
    CallNext(r, "txTimeoutHeight", "CheckTx")

\* A plausible slip: the recheck exemption of validateBasicMiddleware copied to
\* the timeout stage.
txTimeoutHeightMiddleware_CheckTx_SkipsOnRecheck(c, t, r) ==
    IF c.recheck
    THEN CallNext(r, "txTimeoutHeight", "CheckTx")
    ELSE IF checkTimeout(c, t) # NoErr
         THEN ReturnErr(r, checkTimeout(c, t))
         ELSE CallNext(r, "txTimeoutHeight", "CheckTx")

txTimeoutHeightMiddleware_CheckTx(c, t, r) ==
    IF checkTimeout(c, t) # NoErr
    THEN ReturnErr(r, checkTimeout(c, t))
    ELSE CallNext(r, "txTimeoutHeight", "CheckTx")

txTimeoutHeightMiddleware_DeliverTx(c, t, r) ==
    IF checkTimeout(c, t) # NoErr
    THEN ReturnErr(r, checkTimeout(c, t))
    ELSE CallNext(r, "txTimeoutHeight", "DeliverTx")

txTimeoutHeightMiddleware_SimulateTx(c, t, r) ==
    IF checkTimeout(c, t) # NoErr
    THEN ReturnErr(r, checkTimeout(c, t))
    ELSE CallNext(r, "txTimeoutHeight", "SimulateTx")

(***************************************************************************)
(* validateMemoMiddleware                                                  *)
(***************************************************************************)
\* len(s) of a Go string: its number of bytes.  A memo is the sequence of its
\* characters, each given by the number of bytes of its UTF-8 encoding.
RECURSIVE len(_)
len(s) == IF s = <<>> THEN 0 ELSE Head(s) + len(Tail(s))

\* A plausible slip: >= for >.
checkForValidMemo_AtLeast(c, t) ==
    IF ~t.hasMemo
    THEN ErrTxDecode("invalid transaction type")
    ELSE LET params == GetParams(c)
             memoLength == len(t.memo)
         IN  IF Uint64(memoLength) >= params.MaxMemoCharacters
             THEN ErrMemoTooLarge(params.MaxMemoCharacters, memoLength)
             ELSE NoErr

checkForValidMemo(c, t) ==
    IF ~t.hasMemo
    THEN ErrTxDecode("invalid transaction type")
    ELSE LET params == GetParams(c)
             memoLength == len(t.memo)
         IN  IF Uint64(memoLength) > params.MaxMemoCharacters
             THEN ErrMemoTooLarge(params.MaxMemoCharacters, memoLength)
             ELSE NoErr

validateMemoMiddleware_CheckTx(c, t, r) ==
    IF checkForValidMemo(c, t) # NoErr
    THEN ReturnErr(r, checkForValidMemo(c, t))
    ELSE CallNext(r, "validateMemo", "CheckTx")

validateMemoMiddleware_DeliverTx(c, t, r) ==
    IF checkForValidMemo(c, t) # NoErr
    THEN ReturnErr(r, checkForValidMemo(c, t))
    ELSE CallNext(r, "validateMemo", "DeliverTx")

validateMemoMiddleware_SimulateTx(c, t, r) ==
    IF checkForValidMemo(c, t) # NoErr
    THEN ReturnErr(r, checkForValidMemo(c, t))
    ELSE CallNext(r, "validateMemo", "SimulateTx")

(***************************************************************************)
(* consumeTxSizeGasMiddleware                                              *)
(*                                                                         *)
(* A panic of ConsumeGas is not recovered anywhere in the handlers: the    *)
(* handler stops where the panic was raised and the panic leaves it.       *)
(***************************************************************************)
consumeTxSizeGasMiddleware_CheckTx(c, t, r) ==
    IF ~t.sigVerifiable
    THEN ReturnErr(r, ErrTxDecode("invalid tx type"))
    ELSE LET params == GetParams(c)
             r1 == ConsumeGas(c, r, MulGas(params.TxSizeCostPerByte, Uint64(c.txBytesLen)),
                              "consumeTxSizeGas")
         IN  IF Panicked(r1) THEN r1 ELSE CallNext(r1, "consumeTxSizeGas", "CheckTx")

\* A plausible slip: the size of the transaction charged before the type assertion.
consumeTxSizeGasMiddleware_DeliverTx_ChargesFirst(c, t, r) ==
    LET params == GetParams(c)
        r1 == ConsumeGas(c, r, MulGas(params.TxSizeCostPerByte, Uint64(c.txBytesLen)),
                         "consumeTxSizeGas")
    IN  IF Panicked(r1)
        THEN r1
        ELSE IF ~t.sigVerifiable
             THEN ReturnErr(r1, ErrTxDecode("invalid tx type"))
             ELSE CallNext(r1, "consumeTxSizeGas", "DeliverTx")

\* A plausible slip: the context kept where every call of the chain finds it,
\* so that a call reads the context of whichever call came to the chain last.
consumeTxSizeGasMiddleware_DeliverTx_SharedContext(c, t, r) ==
    IF ~t.sigVerifiable
    THEN ReturnErr(r, ErrTxDecode("invalid tx type"))
    ELSE LET shared == IF other.op # "none" THEN other.ctx ELSE c
             params == GetParams(shared)
             r1 == ConsumeGas(shared, r,
                              MulGas(params.TxSizeCostPerByte, Uint64(shared.txBytesLen)),
                              "consumeTxSizeGas")
         IN  IF Panicked(r1) THEN r1 ELSE CallNext(r1, "consumeTxSizeGas", "DeliverTx")

consumeTxSizeGasMiddleware_DeliverTx(c, t, r) ==
    IF ~t.sigVerifiable
    THEN ReturnErr(r, ErrTxDecode("invalid tx type"))
    ELSE LET params == GetParams(c)
             r1 == ConsumeGas(c, r, MulGas(params.TxSizeCostPerByte, Uint64(c.txBytesLen)),
                              "consumeTxSizeGas")
         IN  IF Panicked(r1) THEN r1 ELSE CallNext(r1, "consumeTxSizeGas", "DeliverTx")

\* A plausible slip: the signatures retrieved before the size is charged, so
\* that an error of the retrieval leaves the meter as it was.
consumeTxSizeGasMiddleware_SimulateTx_SigsFirst(c, t, r) ==
    IF ~t.sigVerifiable
    THEN ReturnErr(r, ErrTxDecode("invalid tx type"))
    ELSE LET params == GetParams(c)
             r1 == Logged(r, Event("GetSignaturesV2", "consumeTxSizeGas", r.op, 0, ~t.sigsErr))
             r2 == ConsumeGas(c, r1, MulGas(params.TxSizeCostPerByte, Uint64(c.txBytesLen)),
                              "consumeTxSizeGas")
         IN  IF t.sigsErr
             THEN ReturnErr(r1, ErrGetSignatures)
             ELSE IF Panicked(r2)
                  THEN r2
                  ELSE [r2 EXCEPT !.pc = "signers", !.sigs = t.sigs, !.i = 1]

\* SimulateTx up to its loop: the type assertion, the charge for the size of the
\* transaction, and sigTx.GetSignaturesV2().
consumeTxSizeGasMiddleware_SimulateTx(c, t, r) ==
    IF ~t.sigVerifiable
    THEN ReturnErr(r, ErrTxDecode("invalid tx type"))
    ELSE LET params == GetParams(c)
             r1 == ConsumeGas(c, r, MulGas(params.TxSizeCostPerByte, Uint64(c.txBytesLen)),
                              "consumeTxSizeGas")
             r2 == Logged(r1, Event("GetSignaturesV2", "consumeTxSizeGas", r.op, 0, ~t.sigsErr))
         IN  IF Panicked(r1)
             THEN r1
             ELSE IF t.sigsErr
                  THEN ReturnErr(r2, ErrGetSignatures)
                  ELSE [r2 EXCEPT !.pc = "signers", !.sigs = t.sigs, !.i = 1]

\* A plausible slip: the estimate of a signature given back to the meter
\* (RefundGas for ConsumeGas).
consumeTxSizeGasMiddleware_SimulateTx_signer_Refunds(c, t, r) ==
    LET params == GetParams(c)
        examined == r.i <= Len(r.sigs)
        incomplete == isIncompleteSignature(r.sigs[r.i])
    IN  IF examined /\ ~incomplete
        THEN [r EXCEPT !.i = r.i + 1]
        ELSE LET acc == GetAccount(c, t.signers[r.i])
                 pubkey == IF ~acc.exists \/ acc.pubkey = NilPubKey
                           THEN simSecp256k1Pubkey
                           ELSE acc.pubkey
                 size == Uint64(StdSignatureLen(pubkey) + 6)
                 cost == IF IsLegacyAminoPubKey(pubkey)
                         THEN MulGas(size, params.TxSigLimit)
                         ELSE size
                 amount == MulGas(params.TxSizeCostPerByte, cost)
             IN  [r EXCEPT !.i = r.i + 1,
                           !.gas = IF r.gas >= amount THEN r.gas - amount ELSE 0]

\* A plausible slip: the panic of the meter recovered in the loop, which goes on
\* with the next signer.
consumeTxSizeGasMiddleware_SimulateTx_signer_Recovers(c, t, r) ==
    LET params == GetParams(c)
        examined == r.i <= Len(r.sigs)
        incomplete == isIncompleteSignature(r.sigs[r.i])
        r1 == IF examined
              THEN Logged(r, Event("isIncompleteSignature", "consumeTxSizeGas", r.op, r.i,
                                   incomplete))
              ELSE r
    IN  IF examined /\ ~incomplete
        THEN [r1 EXCEPT !.i = r.i + 1]
        ELSE LET acc == GetAccount(c, t.signers[r.i])
                 r2 == Logged(r1, Event("GetAccount", "consumeTxSizeGas", r.op,
                                        t.signers[r.i], acc.exists))
                 pubkey == IF ~acc.exists \/ acc.pubkey = NilPubKey
                           THEN simSecp256k1Pubkey
                           ELSE acc.pubkey
                 size == Uint64(StdSignatureLen(pubkey) + 6)
                 cost == IF IsLegacyAminoPubKey(pubkey)
                         THEN MulGas(size, params.TxSigLimit)
                         ELSE size
                 r3 == ConsumeGas(c, r2, MulGas(params.TxSizeCostPerByte, cost),
                                  "consumeTxSizeGas")
             IN  [r3 EXCEPT !.pc = "signers", !.err = NoErr, !.i = r.i + 1]

\* A plausible slip: the test of the signature dropped, an estimate charged for
\* every signer.
consumeTxSizeGasMiddleware_SimulateTx_signer_NoSkip(c, t, r) ==
    LET params == GetParams(c)
        acc == GetAccount(c, t.signers[r.i])
        r2 == Logged(r, Event("GetAccount", "consumeTxSizeGas", r.op, t.signers[r.i],
                              acc.exists))
        pubkey == IF ~acc.exists \/ acc.pubkey = NilPubKey
                  THEN simSecp256k1Pubkey
                  ELSE acc.pubkey
        size == Uint64(StdSignatureLen(pubkey) + 6)
        cost == IF IsLegacyAminoPubKey(pubkey)
                THEN MulGas(size, params.TxSigLimit)
                ELSE size
        r3 == ConsumeGas(c, r2, MulGas(params.TxSizeCostPerByte, cost), "consumeTxSizeGas")
    IN  IF Panicked(r3) THEN r3 ELSE [r3 EXCEPT !.i = r.i + 1]

\* A plausible slip: the type assertion on the key dropped, every estimate
\* multiplied by TxSigLimit.
consumeTxSizeGasMiddleware_SimulateTx_signer_AlwaysScales(c, t, r) ==
    LET params == GetParams(c)
        examined == r.i <= Len(r.sigs)
        incomplete == isIncompleteSignature(r.sigs[r.i])
        r1 == IF examined
              THEN Logged(r, Event("isIncompleteSignature", "consumeTxSizeGas", r.op, r.i,
                                   incomplete))
              ELSE r
    IN  IF examined /\ ~incomplete
        THEN [r1 EXCEPT !.i = r.i + 1]
        ELSE LET acc == GetAccount(c, t.signers[r.i])
                 r2 == Logged(r1, Event("GetAccount", "consumeTxSizeGas", r.op,
                                        t.signers[r.i], acc.exists))
                 pubkey == IF ~acc.exists \/ acc.pubkey = NilPubKey
                           THEN simSecp256k1Pubkey
                           ELSE acc.pubkey
                 cost == MulGas(Uint64(StdSignatureLen(pubkey) + 6), params.TxSigLimit)
                 r3 == ConsumeGas(c, r2, MulGas(params.TxSizeCostPerByte, cost),
                                  "consumeTxSizeGas")
             IN  IF Panicked(r3) THEN r3 ELSE [r3 EXCEPT !.i = r.i + 1]

\* One turn of the loop `for i, signer := range sigTx.GetSigners()`, at signer r.i
\* (counted from 1 here, from 0 in the code).
consumeTxSizeGasMiddleware_SimulateTx_signer(c, t, r) ==
    LET params == GetParams(c)
        n == Len(r.sigs)
        signer == t.signers[r.i]
        examined == r.i <= n
        incomplete == isIncompleteSignature(r.sigs[r.i])
        r1 == IF examined
              THEN Logged(r, Event("isIncompleteSignature", "consumeTxSizeGas", r.op, r.i,
                                   incomplete))
              ELSE r
    IN  IF examined /\ ~incomplete
        THEN [r1 EXCEPT !.i = r.i + 1]
        ELSE LET acc == GetAccount(c, signer)
                 r2 == Logged(r1, Event("GetAccount", "consumeTxSizeGas", r.op, signer,
                                        acc.exists))
                 pubkey == IF ~acc.exists \/ acc.pubkey = NilPubKey
                           THEN simSecp256k1Pubkey
                           ELSE acc.pubkey
                 size == Uint64(StdSignatureLen(pubkey) + 6)
                 cost == IF IsLegacyAminoPubKey(pubkey)
                         THEN MulGas(size, params.TxSigLimit)
                         ELSE size
                 r3 == ConsumeGas(c, r2, MulGas(params.TxSizeCostPerByte, cost),
                                  "consumeTxSizeGas")
             IN  IF Panicked(r3) THEN r3 ELSE [r3 EXCEPT !.i = r.i + 1]

\* A plausible slip: the return of DeliverTx copied into SimulateTx, the next
\* handler called with the other operation.
consumeTxSizeGasMiddleware_SimulateTx_next_Delivers(c, t, r) ==
    CallNext(r, "consumeTxSizeGas", "DeliverTx")

\* After the loop: return cgts.next.SimulateTx(ctx, sdkTx, req).
consumeTxSizeGasMiddleware_SimulateTx_next(c, t, r) ==
    CallNext(r, "consumeTxSizeGas", "SimulateTx")

(***************************************************************************)
(* The terminal handler, at the end of every chain: opaque to the chain,   *)
(* it returns a response, or an error.                                     *)
(***************************************************************************)
TerminalHandler(r, err) ==
    [Logged(r, Event("terminal", "terminal", r.op, r.pos, err = NoErr)) EXCEPT
        !.pc = "returned", !.resp = "terminal", !.err = err]

(***************************************************************************)
(* The requests the model sends down the chain.                            *)
(***************************************************************************)
Addresses == 1..MaxSigners

DefaultParams == [MaxMemoCharacters |-> 1, TxSizeCostPerByte |-> 1, TxSigLimit |-> 7]

\* A transaction that has every capability and passes every stage.
DefaultTx ==
    [malformed |-> FALSE, hasTimeoutHeight |-> TRUE, timeoutHeight |-> 0,
     hasMemo |-> TRUE, memo |-> <<>>, sigVerifiable |-> TRUE, sigsErr |-> FALSE,
     sigs |-> <<>>, signers |-> <<>>]

DefaultCtx ==
    [blockHeight |-> 2, recheck |-> FALSE, txBytesLen |-> 1, gasLimit |-> MaxUint64,
     params |-> DefaultParams, accounts |-> [a \in Addresses |-> NoAccount]]

\* block heights (int64) and timeout heights (uint64)
BlockHeights == {MinInt64, 0 - 1, 0, 1, 100, 101, MaxInt64}

TimeoutHeights == {0, 1, 100, MaxInt64, MaxInt64 + 1, MaxUint64}

\* memos: up to MaxMemoChars characters of one or two bytes each
RECURSIVE SeqsUpTo(_, _)
SeqsUpTo(S, k) ==
    IF k = 0
    THEN {<<>>}
    ELSE LET shorter == SeqsUpTo(S, k - 1)
         IN  shorter \cup {Append(s, x) : s \in shorter, x \in S}

Memos == SeqsUpTo({1, 2}, MaxMemoChars)

MemoLimits == 0..(MaxMemoChars + 1)

\* gas: rates, transaction sizes, meter limits, signature limits
Rates == {0, 1, 10, 2 ^ (WordBits - 1), MaxUint64}

TxLens == {0, 1, 2, 3, 200, MaxInt64}

GasLimits == {5, 800, MaxUint64}

SigLimits == {0, 1, 7}

\* signature data: the leaves, and trees of multi-signatures down to a depth;
\* a multi-signature has up to two members, one of them a leaf
SigLeaves == {NilData, SingleSignatureData(<<>>), SingleSignatureData(<<1>>)}

MemberSeqs(T) ==
    {<<>>} \cup {<<x>> : x \in T}
           \cup {<<x, y>> : x \in T, y \in SigLeaves}
           \cup {<<x, y>> : x \in SigLeaves, y \in T}

RECURSIVE SigTrees(_)
SigTrees(d) ==
    IF d = 0
    THEN SigLeaves
    ELSE SigLeaves \cup {MultiSignatureData(s) : s \in MemberSeqs(SigTrees(d - 1))}

\* accounts: none, one with no public key, one with a secp256k1 key, one with a
\* legacy multisig key
Accounts ==
    {NoAccount,
     [exists |-> TRUE, pubkey |-> NilPubKey],
     [exists |-> TRUE, pubkey |-> [kind |-> "secp256k1", stdSigLen |-> 70]],
     [exists |-> TRUE, pubkey |-> [kind |-> "multisig", stdSigLen |-> 100]]}

Signers == {[k \in 1..n |-> k] : n \in 0..MaxSigners}

\* Every combination of passing and failing the four stages, in every mode.
RequestsOfStages ==
    {<<op,
       [DefaultTx EXCEPT !.malformed = m, !.hasTimeoutHeight = to[1], !.timeoutHeight = to[2],
                         !.hasMemo = me[1], !.memo = me[2],
                         !.sigVerifiable = g[1], !.sigsErr = g[2]],
       [DefaultCtx EXCEPT !.recheck = re, !.gasLimit = g[3]]>> :
        op \in Modes, m \in BOOLEAN, re \in BOOLEAN,
        to \in {<<FALSE, 0>>, <<TRUE, 1>>, <<TRUE, 2>>},
        me \in {<<FALSE, <<>>>>, <<TRUE, <<1>>>>, <<TRUE, <<2>>>>},
        g \in {<<FALSE, FALSE, MaxUint64>>, <<TRUE, FALSE, MaxUint64>>,
               <<TRUE, TRUE, MaxUint64>>, <<TRUE, FALSE, 0>>}}

\* Block heights against timeout heights.
RequestsOfTimeout ==
    {<<op, [DefaultTx EXCEPT !.timeoutHeight = h], [DefaultCtx EXCEPT !.blockHeight = b]>> :
        op \in Modes, h \in TimeoutHeights, b \in BlockHeights}

\* Memos against MaxMemoCharacters.
RequestsOfMemo ==
    {<<op, [DefaultTx EXCEPT !.memo = memo],
       [DefaultCtx EXCEPT !.params.MaxMemoCharacters = max]>> :
        op \in Modes, memo \in Memos, max \in MemoLimits}

\* Sizes against rates and meter limits.
RequestsOfTxSize ==
    {<<op, DefaultTx,
       [DefaultCtx EXCEPT !.txBytesLen = n, !.gasLimit = lim,
                          !.params.TxSizeCostPerByte = rate]>> :
        op \in Modes, n \in TxLens, rate \in Rates, lim \in GasLimits}

\* Simulations: signers, their signatures (fewer, as many, or more than the
\* signers) and their accounts, with a rate and a meter limit.
RequestsOfSigners ==
    {<<"SimulateTx", [DefaultTx EXCEPT !.signers = sg, !.sigs = ss],
       [DefaultCtx EXCEPT !.gasLimit = rl[2], !.params.TxSizeCostPerByte = rl[1],
                          !.accounts = accs]>> :
        sg \in Signers,
        ss \in SeqsUpTo({NilData, SingleSignatureData(<<1>>)}, MaxSigners + 1),
        accs \in [Addresses -> Accounts],
        rl \in {<<10, 800>>, <<10, MaxUint64>>, <<2 ^ (WordBits - 1), MaxUint64>>}}

\* One unsigned signer: its account against rates and TxSigLimit, the large
\* limits with the small rates only.
RequestsOfSigLimit ==
    {<<"SimulateTx", [DefaultTx EXCEPT !.signers = <<1>>],
       [DefaultCtx EXCEPT !.params.TxSizeCostPerByte = rl[1], !.params.TxSigLimit = rl[2],
                          !.accounts = [a \in Addresses |-> acc]]>> :
        rl \in (Rates \X SigLimits) \cup ({0, 1, 10} \X {2 ^ (WordBits - 1), MaxUint64}),
        acc \in Accounts}

\* One signer with signature data of every shape.
RequestsOfSigData ==
    {<<"SimulateTx", [DefaultTx EXCEPT !.signers = <<1>>, !.sigs = <<d>>], DefaultCtx>> :
        d \in SigTrees(MaxSigDepth)}

\* Signed transactions in every mode: each signer has a complete signature, and
\* an account with a key, at a small rate and at one whose product wraps.
RequestsOfSigned ==
    {<<op, [DefaultTx EXCEPT !.signers = sg, !.sigs = ss],
       [DefaultCtx EXCEPT !.txBytesLen = rn[2], !.params.TxSizeCostPerByte = rn[1],
                          !.accounts = accs]>> :
        op \in Modes,
        sg \in Signers,
        ss \in SeqsUpTo({SingleSignatureData(<<1>>),
                         MultiSignatureData(<<SingleSignatureData(<<1>>)>>)}, MaxSigners),
        accs \in [Addresses -> {a \in Accounts : a.pubkey # NilPubKey}],
        rn \in {<<10, 3>>, <<2 ^ (WordBits - 1), 3>>}}

\* Transactions whose GetSignaturesV2 fails, with signers that would otherwise
\* be estimated, in every mode.
RequestsOfSigsErr ==
    {<<op, [DefaultTx EXCEPT !.sigsErr = TRUE, !.signers = sg],
       [DefaultCtx EXCEPT !.txBytesLen = 3, !.params.TxSizeCostPerByte = rl[1],
                          !.gasLimit = rl[2]]>> :
        op \in Modes, sg \in Signers,
        rl \in {<<0, MaxUint64>>, <<10, MaxUint64>>, <<10, 5>>}}

Requests ==
    RequestsOfStages \cup RequestsOfTimeout \cup RequestsOfMemo \cup RequestsOfTxSize
        \cup RequestsOfSigners \cup RequestsOfSigLimit \cup RequestsOfSigData
        \cup RequestsOfSigned \cup RequestsOfSigsErr

\* Requests to send one after the other, or at the same time.  The first kind
\* has a memo of two characters and an unsigned signer with a legacy multisig
\* key, under stores that differ in one parameter after the other; the second
\* kind is well-formed or malformed, a first check or a recheck, on a meter
\* wide or too narrow for the size.
ParamsOfPairs ==
    {[MaxMemoCharacters |-> 1, TxSizeCostPerByte |-> 1, TxSigLimit |-> 7],
     [MaxMemoCharacters |-> 2, TxSizeCostPerByte |-> 1, TxSigLimit |-> 7],
     [MaxMemoCharacters |-> 2, TxSizeCostPerByte |-> 10, TxSigLimit |-> 7],
     [MaxMemoCharacters |-> 2, TxSizeCostPerByte |-> 10, TxSigLimit |-> 1]}

RequestsOfPairs ==
    {<<op, [DefaultTx EXCEPT !.memo = <<1, 1>>, !.signers = <<1>>],
       [DefaultCtx EXCEPT !.txBytesLen = 3, !.params = params,
                          !.accounts = [a \in Addresses |->
                              [exists |-> TRUE,
                               pubkey |-> [kind |-> "multisig", stdSigLen |-> 100]]]]>> :
        op \in Modes, params \in ParamsOfPairs}
    \cup
    {<<op, [DefaultTx EXCEPT !.malformed = v[1]],
       [DefaultCtx EXCEPT !.txBytesLen = 3, !.recheck = v[2], !.gasLimit = v[3]]>> :
        op \in Modes,
        v \in {<<FALSE, FALSE, MaxUint64>>, <<TRUE, FALSE, MaxUint64>>,
               <<TRUE, TRUE, MaxUint64>>, <<FALSE, FALSE, 2>>}}

\* The chains: the four middlewares in the order of the default handler, and
\* in the opposite order.
Chains ==
    {<<"validateBasic", "txTimeoutHeight", "validateMemo", "consumeTxSizeGas">>,
     <<"consumeTxSizeGas", "validateMemo", "txTimeoutHeight", "validateBasic">>}

\* A request and the call it makes, as the runtime holds them: the operation
\* asked for, the transaction, the context, the call.  `mixed` is kept for the
\* first request only: a request with other inputs has been handled since.
\* NoRequest is the place of a request with no request in it.
Request(op, t, c, r) == [op |-> op, tx |-> t, ctx |-> c, run |-> r, mixed |-> FALSE]

NoRequest == Request("none", DefaultTx, DefaultCtx, IdleRun)

(***************************************************************************)
(* The state machine.                                                      *)
(***************************************************************************)
Init ==
    /\ chain \in Chains
    /\ tx = DefaultTx
    /\ ctx = DefaultCtx
    /\ run = IdleRun
    /\ first = NoRequest
    /\ other = NoRequest

\* The runtime calls the chain: one of CheckTx, DeliverTx, SimulateTx on the
\* outermost handler, with a transaction and a context of its own.
Begin ==
    /\ run.pc = "idle"
    /\ \E q \in Requests :
        /\ tx' = q[2]
        /\ ctx' = q[3]
        /\ run' = NewRun(q[1])
    /\ UNCHANGED <<chain, first, other>>

\* A plausible slip: the list folded the other way, its last middleware outermost.
At_LastOutermost(stage, op) ==
    /\ run.pc = "call"
    /\ run.pos <= Len(chain)
    /\ chain[Len(chain) + 1 - run.pos] = stage
    /\ run.op = op

\* The handler at the current position is the one of `stage`, called with `op`.
At(stage, op) ==
    /\ run.pc = "call"
    /\ run.pos <= Len(chain)
    /\ chain[run.pos] = stage
    /\ run.op = op

ValidateBasicCheckTx ==
    /\ At("validateBasic", "CheckTx")
    /\ run' = validateBasicMiddleware_CheckTx(ctx, tx, Enter(run, "validateBasic"))
    /\ UNCHANGED <<chain, tx, ctx, first, other>>

ValidateBasicDeliverTx ==
    /\ At("validateBasic", "DeliverTx")
    /\ run' = validateBasicMiddleware_DeliverTx(ctx, tx, Enter(run, "validateBasic"))
    /\ UNCHANGED <<chain, tx, ctx, first, other>>

ValidateBasicSimulateTx ==
    /\ At("validateBasic", "SimulateTx")
    /\ run' = validateBasicMiddleware_SimulateTx(ctx, tx, Enter(run, "validateBasic"))
    /\ UNCHANGED <<chain, tx, ctx, first, other>>

TxTimeoutHeightCheckTx ==
    /\ At("txTimeoutHeight", "CheckTx")
    /\ run' = txTimeoutHeightMiddleware_CheckTx(ctx, tx, Enter(run, "txTimeoutHeight"))
    /\ UNCHANGED <<chain, tx, ctx, first, other>>

TxTimeoutHeightDeliverTx ==
    /\ At("txTimeoutHeight", "DeliverTx")
    /\ run' = txTimeoutHeightMiddleware_DeliverTx(ctx, tx, Enter(run, "txTimeoutHeight"))
    /\ UNCHANGED <<chain, tx, ctx, first, other>>

TxTimeoutHeightSimulateTx ==
    /\ At("txTimeoutHeight", "SimulateTx")
    /\ run' = txTimeoutHeightMiddleware_SimulateTx(ctx, tx, Enter(run, "txTimeoutHeight"))
    /\ UNCHANGED <<chain, tx, ctx, first, other>>

ValidateMemoCheckTx ==
    /\ At("validateMemo", "CheckTx")
    /\ run' = validateMemoMiddleware_CheckTx(ctx, tx, Enter(run, "validateMemo"))
    /\ UNCHANGED <<chain, tx, ctx, first, other>>

ValidateMemoDeliverTx ==
    /\ At("validateMemo", "DeliverTx")
    /\ run' = validateMemoMiddleware_DeliverTx(ctx, tx, Enter(run, "validateMemo"))
    /\ UNCHANGED <<chain, tx, ctx, first, other>>

ValidateMemoSimulateTx ==
    /\ At("validateMemo", "SimulateTx")
    /\ run' = validateMemoMiddleware_SimulateTx(ctx, tx, Enter(run, "validateMemo"))
    /\ UNCHANGED <<chain, tx, ctx, first, other>>

ConsumeTxSizeGasCheckTx ==
    /\ At("consumeTxSizeGas", "CheckTx")
    /\ run' = consumeTxSizeGasMiddleware_CheckTx(ctx, tx, Enter(run, "consumeTxSizeGas"))
    /\ UNCHANGED <<chain, tx, ctx, first, other>>

ConsumeTxSizeGasDeliverTx ==
    /\ At("consumeTxSizeGas", "DeliverTx")
    /\ run' = consumeTxSizeGasMiddleware_DeliverTx(ctx, tx, Enter(run, "consumeTxSizeGas"))
    /\ UNCHANGED <<chain, tx, ctx, first, other>>

ConsumeTxSizeGasSimulateTx ==
    /\ At("consumeTxSizeGas", "SimulateTx")
    /\ run' = consumeTxSizeGasMiddleware_SimulateTx(ctx, tx, Enter(run, "consumeTxSizeGas"))
    /\ UNCHANGED <<chain, tx, ctx, first, other>>

ConsumeTxSizeGasSimulateTxSigner ==
    /\ run.pc = "signers"
    /\ run.i <= Len(tx.signers)
    /\ run' = consumeTxSizeGasMiddleware_SimulateTx_signer(ctx, tx, run)
    /\ UNCHANGED <<chain, tx, ctx, first, other>>

ConsumeTxSizeGasSimulateTxNext ==
    /\ run.pc = "signers"
    /\ run.i > Len(tx.signers)
    /\ run' = consumeTxSizeGasMiddleware_SimulateTx_next(ctx, tx, run)
    /\ UNCHANGED <<chain, tx, ctx, first, other>>

\* The call reached the terminal handler.
Terminal ==
    /\ run.pc = "call"
    /\ run.pos = Len(chain) + 1
    /\ \E err \in {NoErr, ErrTerminal} : run' = TerminalHandler(run, err)
    /\ UNCHANGED <<chain, tx, ctx, first, other>>

\* The runtime has the outcome; the context and its meter are dropped.
Finish ==
    /\ run.pc \in {"returned", "panicked"}
    /\ run' = IdleRun
    /\ tx' = DefaultTx
    /\ ctx' = DefaultCtx
    /\ UNCHANGED <<chain, first, other>>

Next ==
    \/ Begin
    \/ ValidateBasicCheckTx
    \/ ValidateBasicDeliverTx
    \/ ValidateBasicSimulateTx
    \/ TxTimeoutHeightCheckTx
    \/ TxTimeoutHeightDeliverTx
    \/ TxTimeoutHeightSimulateTx
    \/ ValidateMemoCheckTx
    \/ ValidateMemoDeliverTx
    \/ ValidateMemoSimulateTx
    \/ ConsumeTxSizeGasCheckTx
    \/ ConsumeTxSizeGasDeliverTx
    \/ ConsumeTxSizeGasSimulateTx
    \/ ConsumeTxSizeGasSimulateTxSigner
    \/ ConsumeTxSizeGasSimulateTxNext
    \/ Terminal
    \/ Finish

Spec == Init /\ [][Next]_vars

\* The steps of a call through the chain: the handlers and the terminal handler.
Handlers ==
    \/ ValidateBasicCheckTx
    \/ ValidateBasicDeliverTx
    \/ ValidateBasicSimulateTx
    \/ TxTimeoutHeightCheckTx
    \/ TxTimeoutHeightDeliverTx
    \/ TxTimeoutHeightSimulateTx
    \/ ValidateMemoCheckTx
    \/ ValidateMemoDeliverTx
    \/ ValidateMemoSimulateTx
    \/ ConsumeTxSizeGasCheckTx
    \/ ConsumeTxSizeGasDeliverTx
    \/ ConsumeTxSizeGasSimulateTx
    \/ ConsumeTxSizeGasSimulateTxSigner
    \/ ConsumeTxSizeGasSimulateTxNext
    \/ Terminal

(***************************************************************************)
(* Requests one after the other through the same chain.                    *)
(***************************************************************************)
BeginSeq ==
    /\ run.pc = "idle"
    /\ \E q \in RequestsOfPairs :
        /\ tx' = q[2]
        /\ ctx' = q[3]
        /\ run' = NewRun(q[1])
    /\ UNCHANGED <<chain, first, other>>

\* The runtime has the outcome and drops the context; the first request and
\* its outcome are kept to compare with.
FinishSeq ==
    /\ run.pc \in {"returned", "panicked"}
    /\ first' = IF first = NoRequest
                THEN Request(run.op, tx, ctx, run)
                ELSE [first EXCEPT !.mixed =
                        @ \/ <<run.op, tx, ctx>> # <<first.op, first.tx, first.ctx>>]
    /\ run' = IdleRun
    /\ tx' = DefaultTx
    /\ ctx' = DefaultCtx
    /\ UNCHANGED <<chain, other>>

NextSeq ==
    \/ BeginSeq
    \/ Handlers
    \/ FinishSeq

SpecSeq == Init /\ [][NextSeq]_vars

(***************************************************************************)
(* Two goroutines in the same chain, each with a request of its own: its   *)
(* transaction, its context, its gas meter.                                *)
(***************************************************************************)
BeginConc ==
    /\ run.pc = "idle"
    /\ \E q \in RequestsOfPairs :
        /\ tx' = q[2]
        /\ ctx' = q[3]
        /\ run' = NewRun(q[1])
    /\ UNCHANGED <<chain, first, other>>

\* The scheduler stops the running goroutine where it is and lets the other run.
Switch ==
    /\ other' = Request(run.op, tx, ctx, run)
    /\ tx' = other.tx
    /\ ctx' = other.ctx
    /\ run' = other.run
    /\ UNCHANGED <<chain, first>>

NextConc ==
    \/ BeginConc
    \/ Handlers
    \/ Finish
    \/ Switch

SpecConc == Init /\ [][NextConc]_vars

(***************************************************************************)
(* Reading the log of the call in flight.                                  *)
(***************************************************************************)
\* the log's k-th entry is the start of the handler of `stage`
EnteredAt(k, stage) ==
    /\ k \in DOMAIN run.log
    /\ run.log[k].ev = "enter"
    /\ run.log[k].stage = stage

\* the handler that started at k did nothing but return err, with an empty
\* response, and the call ended there
FailedAt(k, err) ==
    /\ k = Len(run.log)
    /\ run.pc = "returned"
    /\ run.resp = "empty"
    /\ run.err = err

\* the handler of `stage` that started at k did nothing but call the same
\* operation of the next handler
PassedAt(k, stage) ==
    /\ k < Len(run.log)
    /\ run.log[k + 1] = Event("next", stage, run.log[k].op, run.log[k].n + 1, TRUE)

\* the positions of the log that hold an event of kind ev
Positions(ev) == {k \in DOMAIN run.log : run.log[k].ev = ev}

\* gas the meter accepted in the log's entries before the k-th
RECURSIVE GasBefore(_)
GasBefore(k) ==
    IF k <= 1
    THEN 0
    ELSE GasBefore(k - 1)
            + (IF run.log[k - 1].ev = "ConsumeGas" /\ run.log[k - 1].ok
               THEN run.log[k - 1].n
               ELSE 0)

Min(S) == CHOOSE x \in S : \A y \in S : x <= y

(***************************************************************************)
(* C1.  validateBasicMiddleware skips tx.ValidateBasic exactly when the    *)
(* operation is CheckTx and the context is a recheck; DeliverTx and        *)
(* SimulateTx call it whatever the recheck flag.  When it is skipped, a    *)
(* malformed transaction is still handed to the next handler.              *)
(***************************************************************************)
C1_ValidateBasicSkippedIffRecheck ==
    \A k \in DOMAIN run.log :
        EnteredAt(k, "validateBasic") =>
            LET skipped == Positions("ValidateBasic") = {}
            IN  /\ skipped <=> (run.log[k].op = "CheckTx" /\ ctx.recheck)
                /\ ~skipped => Positions("ValidateBasic") = {k + 1}
                /\ skipped /\ tx.malformed => PassedAt(k, "validateBasic")

\* Scenario C: a recheck of a malformed transaction went down the whole chain.
C1_Witness ==
    /\ run.pc = "returned"
    /\ run.resp = "terminal"
    /\ run.op = "CheckTx"
    /\ ctx.recheck
    /\ tx.malformed
    /\ \E k \in DOMAIN run.log : EnteredAt(k, "validateBasic")

\* What the check of a stage gives for the request in flight.
StageCheck(stage, op) ==
    CASE stage = "validateBasic" ->
            IF op = "CheckTx" /\ ctx.recheck THEN NoErr ELSE ValidateBasic(tx)
      [] stage = "txTimeoutHeight" -> checkTimeout(ctx, tx)
      [] stage = "validateMemo" -> checkForValidMemo(ctx, tx)
      [] stage = "consumeTxSizeGas" ->
            IF ~tx.sigVerifiable
            THEN ErrTxDecode("invalid tx type")
            ELSE IF op = "SimulateTx" /\ tx.sigsErr THEN ErrGetSignatures ELSE NoErr

\* the positions of the chain whose stage would fail its check
FailingPositions == {p \in 1..Len(chain) : StageCheck(chain[p], run.op) # NoErr}

\* the stages whose handler ran, in order
StagesEntered == [k \in 1..Cardinality(Positions("enter")) |->
                    run.log[CHOOSE j \in Positions("enter") :
                        Cardinality({i \in Positions("enter") : i <= j}) = k].stage]

(***************************************************************************)
(* C2.  Every stage fails fast.  When the check of a stage returns an      *)
(* error, the stage does not call the next handler and the call returns    *)
(* that error with an empty response.  So a call returns the error of the  *)
(* first stage of the chain whose check fails, no later stage and no       *)
(* terminal handler having run; and a stage runs only when every stage     *)
(* before it passed.  (A panic of the gas meter is not an error a stage    *)
(* returns; C10 is about it.)                                              *)
(***************************************************************************)
C2_FailFast ==
    /\ run.pc \in {"call", "signers"} =>
        \A p \in 1..Len(chain) : p < run.pos => StageCheck(chain[p], run.op) = NoErr
    /\ run.pc = "returned" =>
        IF FailingPositions = {}
        THEN /\ Positions("terminal") # {}
             /\ StagesEntered = chain
        ELSE LET p == Min(FailingPositions)
             IN  /\ run.err = StageCheck(chain[p], run.op)
                 /\ run.resp = "empty"
                 /\ StagesEntered = SubSeq(chain, 1, p)
                 /\ Cardinality(Positions("next")) = p - 1
                 /\ Positions("terminal") = {}

\* Two stages would fail; the call returned the error of the first of them.
C2_Witness ==
    /\ run.pc = "returned"
    /\ Cardinality(FailingPositions) >= 2
    /\ Min(FailingPositions) >= 2
    /\ run.err.kind = "ErrMemoTooLarge"

\* The transaction lacks what the stage asserts of it.
Lacks(stage) ==
    CASE stage = "txTimeoutHeight" -> ~tx.hasTimeoutHeight
      [] stage = "validateMemo" -> ~tx.hasMemo
      [] stage = "consumeTxSizeGas" -> ~tx.sigVerifiable
      [] OTHER -> FALSE

(***************************************************************************)
(* C3.  A transaction without the capability a stage needs (a timeout      *)
(* height, a memo, signatures to verify) makes that stage return           *)
(* ErrTxDecode in every mode, without a call of the next handler and       *)
(* without any effect: the gas stage consumes no gas before it returns.    *)
(***************************************************************************)
C3_MissingCapabilityIsDecodeError ==
    \A k \in DOMAIN run.log :
        \A stage \in Stages :
            EnteredAt(k, stage) /\ Lacks(stage) =>
                /\ k = Len(run.log)
                /\ run.pc = "returned"
                /\ run.resp = "empty"
                /\ run.err.kind = "ErrTxDecode"
                /\ run.gas = GasBefore(k)

\* The gas stage, reached after the stages before it passed, met a transaction
\* that is not a SigVerifiableTx.
C3_Witness ==
    /\ EnteredAt(Len(run.log), "consumeTxSizeGas")
    /\ Len(run.log) > 1
    /\ ~tx.sigVerifiable
    /\ run.op = "SimulateTx"
    /\ run.err = ErrTxDecode("invalid tx type")

(***************************************************************************)
(* C4.  With a timeout height h > 0 and a block height b, the timeout      *)
(* stage fails, with ErrTxTimeoutHeight carrying b and h, exactly when     *)
(* b > h; with h = 0 it never fails.  b is any int64, h any uint64.        *)
(***************************************************************************)
C4_TimeoutIffHeightPassed ==
    \A k \in DOMAIN run.log :
        EnteredAt(k, "txTimeoutHeight") /\ tx.hasTimeoutHeight =>
            LET b == ctx.blockHeight
                h == tx.timeoutHeight
            IN  /\ h > 0 => (FailedAt(k, ErrTxTimeoutHeight(b, h)) <=> b > h)
                /\ h > 0 /\ ~(b > h) => PassedAt(k, "txTimeoutHeight")
                /\ h = 0 => PassedAt(k, "txTimeoutHeight")

(***************************************************************************)
(* C5.  With a memo of length L and MaxMemoCharacters = M, the memo stage  *)
(* fails, with ErrMemoTooLarge carrying M and L, exactly when L > M; a     *)
(* memo of length M passes and the next handler is called.  L is the       *)
(* length the stage takes of the memo, len(memo).                          *)
(***************************************************************************)
C5_MemoTooLargeIffLonger ==
    \A k \in DOMAIN run.log :
        EnteredAt(k, "validateMemo") /\ tx.hasMemo =>
            LET L == len(tx.memo)
                M == ctx.params.MaxMemoCharacters
            IN  /\ FailedAt(k, ErrMemoTooLarge(M, L)) <=> L > M
                /\ ~(L > M) => PassedAt(k, "validateMemo")

\* A memo as long as the maximum went through the stage.
C5_Witness ==
    \E k \in DOMAIN run.log :
        /\ EnteredAt(k, "validateMemo")
        /\ tx.hasMemo
        /\ len(tx.memo) = ctx.params.MaxMemoCharacters
        /\ len(tx.memo) >= 2
        /\ PassedAt(k, "validateMemo")

\* The amounts the meter was asked for from the log's k-th entry on, in order.
RECURSIVE ChargesFrom(_)
ChargesFrom(k) ==
    IF k > Len(run.log)
    THEN <<>>
    ELSE IF run.log[k].ev = "ConsumeGas"
         THEN <<run.log[k].n>> \o ChargesFrom(k + 1)
         ELSE ChargesFrom(k + 1)

(***************************************************************************)
(* C6.  For a SigVerifiableTx of n bytes and TxSizeCostPerByte = r, the    *)
(* gas stage charges exactly r * n to the meter, once, before the next     *)
(* handler is called, the same in CheckTx, DeliverTx and SimulateTx, for   *)
(* every r and n a uint64 holds.                                           *)
(***************************************************************************)
C6_BaseChargeIsRateTimesSize ==
    \A k \in DOMAIN run.log :
        EnteredAt(k, "consumeTxSizeGas") /\ tx.sigVerifiable =>
            /\ k < Len(run.log)
            /\ run.log[k + 1].ev = "ConsumeGas"
            /\ run.log[k + 1].n = ctx.params.TxSizeCostPerByte * ctx.txBytesLen
            /\ run.op # "SimulateTx" => Len(ChargesFrom(k)) = 1
            /\ \A j \in Positions("next") :
                    run.log[j].stage = "consumeTxSizeGas" => j > k + 1

\* Incomplete signature data, as it is defined: nil, a single signature with no
\* bytes, a multi-signature with no members or with an incomplete member.
RECURSIVE IncompleteByDefinition(_)
IncompleteByDefinition(d) ==
    \/ d.type = "nil"
    \/ d.type = "single" /\ d.signature = <<>>
    \/ d.type = "multi" /\ d.signatures = <<>>
    \/ d.type = "multi" /\ \E k \in DOMAIN d.signatures : IncompleteByDefinition(d.signatures[k])

\* the key the estimate of signer i is made with
ResolvedPubKey(i) ==
    LET acc == ctx.accounts[tx.signers[i]]
    IN  IF acc.exists /\ acc.pubkey # NilPubKey THEN acc.pubkey ELSE simSecp256k1Pubkey

\* Is signer i charged for, and how much, the products taken over the integers.
Unsigned(i) == i > Len(tx.sigs) \/ IncompleteByDefinition(tx.sigs[i])

SignerEstimate(i) ==
    ctx.params.TxSizeCostPerByte * (ResolvedPubKey(i).stdSigLen + 6)
        * (IF ResolvedPubKey(i).kind = "multisig" THEN ctx.params.TxSigLimit ELSE 1)

RECURSIVE EstimatesFrom(_)
EstimatesFrom(i) ==
    IF i > Len(tx.signers)
    THEN <<>>
    ELSE IF Unsigned(i)
         THEN <<SignerEstimate(i)>> \o EstimatesFrom(i + 1)
         ELSE EstimatesFrom(i + 1)

RECURSIVE Sum(_)
Sum(s) == IF s = <<>> THEN 0 ELSE Head(s) + Sum(Tail(s))

\* the gas stage of a simulation has gone through its signers and called the
\* next handler
SimulationCharged(k) ==
    /\ EnteredAt(k, "consumeTxSizeGas")
    /\ run.log[k].op = "SimulateTx"
    /\ \E j \in Positions("next") : run.log[j].stage = "consumeTxSizeGas"

(***************************************************************************)
(* C7.  In SimulateTx the gas stage goes through the signers in order and  *)
(* charges, beyond the charge for the size, for the signer at position i:  *)
(* nothing when there is a signature at i and it is complete; otherwise    *)
(* r * (simulatedSize + 6), times TxSigLimit when the key is a legacy      *)
(* multisig key.  The extra gas of the simulation is the sum of these;     *)
(* signatures past the last signer count for nothing.                      *)
(***************************************************************************)
C7_SimulateChargesPerUnsignedSigner ==
    \A k \in DOMAIN run.log :
        SimulationCharged(k) =>
            /\ Tail(ChargesFrom(k)) = EstimatesFrom(1)
            /\ run.gas - GasBefore(k + 2) = Sum(EstimatesFrom(1))

(***************************************************************************)
(* C8.  isIncompleteSignature agrees with the recursive definition of      *)
(* completeness at every depth of nesting: data is incomplete exactly when *)
(* it is nil, a single signature with no bytes, or a multi-signature with  *)
(* no members or with an incomplete member.                                *)
(***************************************************************************)
C8_IncompleteMatchesDefinition ==
    \A k \in Positions("isIncompleteSignature") :
        run.log[k].ok = IncompleteByDefinition(run.sigs[run.log[k].n])

\* how deep multi-signatures are nested in d
RECURSIVE Depth(_)
Depth(d) ==
    IF d.type # "multi"
    THEN 0
    ELSE IF d.signatures = <<>>
         THEN 1
         ELSE 1 + Depth(d.signatures[CHOOSE i \in DOMAIN d.signatures :
                        \A j \in DOMAIN d.signatures :
                            Depth(d.signatures[j]) <= Depth(d.signatures[i])])

\* The loop found a multi-signature incomplete whose own members are a complete
\* single signature and a multi-signature: what is missing lies one level down.
C8_Witness ==
    \E k \in Positions("isIncompleteSignature") :
        LET d == run.sigs[run.log[k].n]
        IN  /\ Depth(d) >= 2
            /\ run.log[k].ok
            /\ Len(d.signatures) = 2
            /\ \A i \in DOMAIN d.signatures :
                    \/ d.signatures[i] = SingleSignatureData(<<1>>)
                    \/ d.signatures[i].type = "multi" /\ d.signatures[i].signatures # <<>>

(***************************************************************************)
(* C9.  Within one request the gas consumed on the meter of the context    *)
(* never goes down, and it is never more than the limit of the meter.      *)
(***************************************************************************)
C9_GasMonotoneAndBounded ==
    [][/\ (run.pc # "idle" /\ run'.pc # "idle") => run'.gas >= run.gas
       /\ run'.gas <= ctx'.gasLimit]_vars

\* A simulation charged for the size and then for a signer, on a meter with a
\* limit it did not reach.
C9_Witness ==
    /\ run.pc = "returned"
    /\ Cardinality(Positions("ConsumeGas")) >= 2
    /\ run.gas > 0
    /\ run.gas < ctx.gasLimit
    /\ ctx.gasLimit < MaxUint64

(***************************************************************************)
(* C10.  When a charge of the gas stage (for the size, or for a signer in  *)
(* SimulateTx) would take the consumption past the limit, the panic of the *)
(* meter is not caught by the stage: the call ends at that charge, no      *)
(* further signer is examined or charged, no further account is looked up  *)
(* and the next handler is not called.                                     *)
(***************************************************************************)
C10_OutOfGasAbortsTheCall ==
    \A k \in Positions("ConsumeGas") :
        LET refused == GasBefore(k) + run.log[k].n > ctx.gasLimit
        IN  /\ refused <=> ~run.log[k].ok
            /\ refused =>
                /\ k = Len(run.log)
                /\ run.pc = "panicked"
                /\ run.err = ErrorOutOfGas
                /\ run.gas = GasBefore(k)
                /\ \A j \in Positions("next") :
                        run.log[j].stage # "consumeTxSizeGas"

\* The meter refused the charge for the first of two signers.
C10_Witness ==
    /\ run.pc = "panicked"
    /\ run.op = "SimulateTx"
    /\ Len(tx.signers) = 2
    /\ run.i = 1
    /\ Cardinality(Positions("ConsumeGas")) = 2
    /\ Cardinality(Positions("GetAccount")) = 1

\* how many handlers had started by the log's k-th entry
EnteredBy(k) == Cardinality({j \in 1..k : run.log[j].ev = "enter"})

(***************************************************************************)
(* C11.  A chain built from the list m1, ..., mk over a terminal handler    *)
(* has m1 for its outermost handler.  In every request the stages run one  *)
(* after the other in the order of the list: the p-th handler to start is  *)
(* the one of mp, it starts right after the handler of m(p-1) called its   *)
(* next, everything done between its start and the start of the following  *)
(* handler is its own, and the terminal handler runs last, after every     *)
(* stage of the list has passed.                                           *)
(***************************************************************************)
C11_StagesRunInListOrder ==
    /\ \A k \in Positions("enter") :
        LET p == run.log[k].n
        IN  /\ p = EnteredBy(k)
            /\ p <= Len(chain)
            /\ run.log[k].stage = chain[p]
            /\ IF p = 1
               THEN k = 1
               ELSE /\ run.log[k - 1].ev = "next"
                    /\ run.log[k - 1].stage = chain[p - 1]
                    /\ StageCheck(chain[p - 1], run.op) = NoErr
    /\ \A k \in DOMAIN run.log :
        run.log[k].ev # "terminal" =>
            LET p == EnteredBy(k)
            IN  /\ p >= 1
                /\ run.log[k].stage = chain[p]
    /\ \A k \in Positions("terminal") :
        /\ k = Len(run.log)
        /\ StagesEntered = chain
        /\ run.log[k - 1].ev = "next"
        /\ run.log[k - 1].stage = chain[Len(chain)]
        /\ \A p \in 1..Len(chain) :
            /\ StageCheck(chain[p], run.op) = NoErr
            /\ \E j \in Positions("next") : run.log[j].stage = chain[p]

\* A simulation went down the chain that has the gas stage outermost: the
\* estimate for a signer was charged before any other stage started, and the
\* terminal handler ran after validateBasic, the last of the list.
C11_Witness ==
    /\ chain[1] = "consumeTxSizeGas"
    /\ run.resp = "terminal"
    /\ run.op = "SimulateTx"
    /\ \E k \in Positions("GetAccount") : EnteredBy(k) = 1
    /\ run.log[Len(run.log) - 1].stage = "validateBasic"

\* What a handler of the timeout stage or of the memo stage decided, read off
\* the record it gives back: it called its next, or it returned an error.
Decision(r) ==
    IF r.pc = "returned"
    THEN [passed |-> FALSE, err |-> r.err]
    ELSE [passed |-> TRUE, err |-> NoErr]

\* what the handler that started at the log's k-th entry decided
ObservedDecision(k) ==
    IF k < Len(run.log) /\ run.log[k + 1].ev = "next"
    THEN [passed |-> TRUE, err |-> NoErr]
    ELSE [passed |-> FALSE, err |-> run.err]

\* the handler of the timeout stage or of the memo stage for the operation op
CheckingHandler(stage, op, c, t, r) ==
    CASE stage = "txTimeoutHeight" /\ op = "CheckTx" -> txTimeoutHeightMiddleware_CheckTx(c, t, r)
      [] stage = "txTimeoutHeight" /\ op = "DeliverTx" -> txTimeoutHeightMiddleware_DeliverTx(c, t, r)
      [] stage = "txTimeoutHeight" /\ op = "SimulateTx" -> txTimeoutHeightMiddleware_SimulateTx(c, t, r)
      [] stage = "validateMemo" /\ op = "CheckTx" -> validateMemoMiddleware_CheckTx(c, t, r)
      [] stage = "validateMemo" /\ op = "DeliverTx" -> validateMemoMiddleware_DeliverTx(c, t, r)
      [] stage = "validateMemo" /\ op = "SimulateTx" -> validateMemoMiddleware_SimulateTx(c, t, r)

(***************************************************************************)
(* C12.  The timeout stage and the memo stage decide the same in CheckTx,  *)
(* DeliverTx and SimulateTx, and in CheckTx the same with and without the  *)
(* recheck flag: what the stage decided in the request in flight (it       *)
(* passed, or it failed with an error) is what its handler of every        *)
(* operation decides, under either value of the flag, for the same         *)
(* transaction, block height and parameters.                               *)
(***************************************************************************)
C12_SameDecisionInEveryMode ==
    \A k \in DOMAIN run.log :
        \A stage \in {"txTimeoutHeight", "validateMemo"} :
            EnteredAt(k, stage) /\ (k < Len(run.log) \/ run.pc = "returned") =>
                \A op \in Modes, re \in BOOLEAN :
                    Decision(CheckingHandler(stage, op, [ctx EXCEPT !.recheck = re], tx,
                                             NewRun(op)))
                        = ObservedDecision(k)

\* A recheck of a transaction with a timeout height still ahead and a memo too
\* long: the timeout stage passed it, the memo stage refused it.
C12_Witness ==
    /\ run.op = "CheckTx"
    /\ ctx.recheck
    /\ tx.timeoutHeight > 0
    /\ \E k \in DOMAIN run.log :
        EnteredAt(k, "txTimeoutHeight") /\ PassedAt(k, "txTimeoutHeight")
    /\ \E k \in DOMAIN run.log :
        /\ EnteredAt(k, "validateMemo")
        /\ FailedAt(k, ErrMemoTooLarge(ctx.params.MaxMemoCharacters, len(tx.memo)))

\* the amounts the meter was asked for in a log, in order
RECURSIVE AmountsAsked(_)
AmountsAsked(log) ==
    IF log = <<>>
    THEN <<>>
    ELSE IF Head(log).ev = "ConsumeGas"
         THEN <<Head(log).n>> \o AmountsAsked(Tail(log))
         ELSE AmountsAsked(Tail(log))

\* every signer of the transaction has a signature at its position, and the
\* signature is complete
EverySignerSigned ==
    /\ tx.sigVerifiable
    /\ ~tx.sigsErr
    /\ \A i \in DOMAIN tx.signers :
        i <= Len(tx.sigs) /\ ~IncompleteByDefinition(tx.sigs[i])

(***************************************************************************)
(* C13.  A simulation of a transaction whose signers all have a complete   *)
(* signature is priced like the signed transaction.  In SimulateTx the gas *)
(* stage asks the meter for what its CheckTx and its DeliverTx ask for the *)
(* same transaction and parameters, the charge for the size and nothing    *)
(* else, it ends the same way, and it looks up no account.  In CheckTx and *)
(* DeliverTx the stage makes that one charge and neither reads the         *)
(* signatures nor looks up an account.                                     *)
(***************************************************************************)
C13_SignedSimulationPricedAsSigned ==
    \A k \in DOMAIN run.log :
        EnteredAt(k, "consumeTxSizeGas") /\ EverySignerSigned =>
            LET before == [NewRun("CheckTx") EXCEPT !.gas = GasBefore(k)]
                check == consumeTxSizeGasMiddleware_CheckTx(ctx, tx, before)
                deliver == consumeTxSizeGasMiddleware_DeliverTx(ctx, tx, before)
            IN  /\ Len(ChargesFrom(k)) = 1
                /\ run.log[k + 1].ev = "ConsumeGas"
                /\ AmountsAsked(check.log) = ChargesFrom(k)
                /\ AmountsAsked(deliver.log) = ChargesFrom(k)
                /\ check.gas = deliver.gas
                /\ run.pc # "signers" => run.gas = check.gas
                /\ Panicked(run) <=> Panicked(check)
                /\ Panicked(run) <=> Panicked(deliver)
                /\ Positions("GetAccount") = {}
                /\ run.op # "SimulateTx" =>
                    Positions("GetSignaturesV2") \cup Positions("isIncompleteSignature") = {}

\* A simulation of a transaction with two signers, both signed, both with an
\* account that has a key, went through the gas stage: one charge, for the size.
C13_Witness ==
    /\ run.op = "SimulateTx"
    /\ EverySignerSigned
    /\ Len(tx.signers) = 2
    /\ \A i \in DOMAIN tx.signers : ctx.accounts[tx.signers[i]].pubkey # NilPubKey
    /\ \E j \in Positions("next") : run.log[j].stage = "consumeTxSizeGas"
    /\ Cardinality(Positions("isIncompleteSignature")) = 2
    /\ run.gas = ctx.params.TxSizeCostPerByte * ctx.txBytesLen
    /\ run.gas > 0

(***************************************************************************)
(* C14.  The length the memo stage compares with MaxMemoCharacters is the  *)
(* number of characters of the memo: with a memo of C characters the stage *)
(* fails exactly when C > MaxMemoCharacters, however many bytes a          *)
(* character takes, and ErrMemoTooLarge carries C.                         *)
(***************************************************************************)
C14_MemoLengthIsCharacters ==
    \A k \in DOMAIN run.log :
        EnteredAt(k, "validateMemo") /\ tx.hasMemo =>
            LET C == Len(tx.memo)
                M == ctx.params.MaxMemoCharacters
            IN  /\ FailedAt(k, ErrMemoTooLarge(M, C)) <=> C > M
                /\ ~(C > M) => PassedAt(k, "validateMemo")

\* the calls of its next handler that the stage made
NextCallsOf(stage) == {j \in Positions("next") : run.log[j].stage = stage}

\* the handler of the stage ran to its end without a panic of the meter
Completed(stage) ==
    stage = "consumeTxSizeGas" => run.pc \notin {"signers", "panicked"}

\* In the request in flight every handler ran the operation the chain was called
\* with, a stage that passed called that operation of its next handler, once, and
\* what the terminal handler returned is what the chain returned.
DelegatesInMode ==
    run.log # <<>> =>
        LET req == run.log[1].op
        IN  /\ run.op = req
            /\ \A k \in DOMAIN run.log : run.log[k].op = req
            /\ \A k \in Positions("enter") :
                LET stage == run.log[k].stage
                IN  /\ Cardinality(NextCallsOf(stage)) <= 1
                    /\ \A j \in NextCallsOf(stage) :
                        /\ j > k
                        /\ run.log[j] = Event("next", stage, req, run.log[k].n + 1, TRUE)
                    /\ StageCheck(stage, req) = NoErr /\ Completed(stage) =>
                        Cardinality(NextCallsOf(stage)) = 1
                    /\ StageCheck(stage, req) # NoErr => NextCallsOf(stage) = {}
            /\ \A k \in Positions("terminal") :
                /\ run.pc = "returned"
                /\ run.resp = "terminal"
                /\ run.log[k].ok <=> run.err = NoErr

(***************************************************************************)
(* C18.  Delegation keeps the mode.  A stage whose check passes calls,     *)
(* once, the operation of its next handler that it was called with itself  *)
(* (CheckTx calls next.CheckTx, DeliverTx next.DeliverTx, SimulateTx       *)
(* next.SimulateTx), with the context and the transaction it was given,    *)
(* and returns what the next handler returns; no operation of another mode *)
(* is ever called.                                                         *)
(***************************************************************************)
C18_DelegationKeepsMode ==
    [][/\ DelegatesInMode'
       /\ run.pc # "idle" /\ run'.pc # "idle" => tx' = tx /\ ctx' = ctx /\ chain' = chain]_vars

\* A simulation with an unsigned signer went through all four stages and the
\* terminal handler's error came back as the error of the chain.
C18_Witness ==
    /\ run.pc = "returned"
    /\ run.op = "SimulateTx"
    /\ run.resp = "terminal"
    /\ run.err = ErrTerminal
    /\ Positions("GetAccount") # {}
    /\ \A stage \in Stages : Cardinality(NextCallsOf(stage)) = 1

\* the account has a key of its own
HasOwnKey(acc) == acc.exists /\ acc.pubkey # NilPubKey

\* what was asked of the meter right after the lookup of an account at the
\* log's j-th entry came from a key of standard-signature length size, and was
\* or was not multiplied by TxSigLimit (the products are those of sdk.Gas)
EstimatedWith(j, size, scaled) ==
    /\ j < Len(run.log)
    /\ run.log[j + 1].ev = "ConsumeGas"
    /\ run.log[j + 1].n =
        MulGas(ctx.params.TxSizeCostPerByte,
               IF scaled THEN MulGas(Uint64(size + 6), ctx.params.TxSigLimit)
                         ELSE Uint64(size + 6))

(***************************************************************************)
(* C19.  In SimulateTx the estimate for a signer without a complete        *)
(* signature is made with the key of the signer's account exactly when the *)
(* account exists and has a key, and with simSecp256k1Pubkey otherwise.    *)
(* The placeholder is no legacy multisig key: the estimate of a signer     *)
(* whose account is absent or has no key is never multiplied by            *)
(* TxSigLimit, and an estimate is multiplied by it only when the account's *)
(* own key is a legacy multisig key.                                       *)
(***************************************************************************)
C19_PlaceholderKeyIsNeverScaled ==
    \A j \in Positions("GetAccount") :
        LET acc == ctx.accounts[run.log[j].n]
        IN  /\ run.log[j].op = "SimulateTx"
            /\ run.log[j].ok = acc.exists
            /\ IF HasOwnKey(acc)
               THEN EstimatedWith(j, acc.pubkey.stdSigLen, acc.pubkey.kind = "multisig")
               ELSE /\ EstimatedWith(j, simSecp256k1Pubkey.stdSigLen, FALSE)
                    /\ simSecp256k1Pubkey.kind # "multisig"

\* A simulation of two unsigned signers, one with no account and one whose
\* account has a legacy multisig key, with TxSigLimit 7: the first estimate is
\* the placeholder's and is not multiplied, the second is the account key's,
\* seven times.
C19_Witness ==
    /\ ctx.params.TxSigLimit = 7
    /\ ctx.params.TxSizeCostPerByte = 10
    /\ \E j \in Positions("GetAccount") :
        /\ ~ctx.accounts[run.log[j].n].exists
        /\ run.log[j + 1].n = 10 * (simSecp256k1Pubkey.stdSigLen + 6)
        /\ run.log[j + 1].ok
    /\ \E j \in Positions("GetAccount") :
        /\ ctx.accounts[run.log[j].n].pubkey.kind = "multisig"
        /\ run.log[j + 1].n = 10 * (ctx.accounts[run.log[j].n].pubkey.stdSigLen + 6) * 7
        /\ run.log[j + 1].ok

(***************************************************************************)
(* C20.  When GetSignaturesV2 fails in SimulateTx, the gas stage returns   *)
(* its error as it is: the next handler is not called and nothing is       *)
(* charged for a signer, but the charge for the size, made before the      *)
(* signatures were asked for, stays consumed on the meter.  In CheckTx and *)
(* DeliverTx the signatures are not asked for, and the same transaction    *)
(* passes the gas stage.                                                   *)
(***************************************************************************)
C20_SignaturesErrorKeepsBaseCharge ==
    \A k \in DOMAIN run.log :
        EnteredAt(k, "consumeTxSizeGas") /\ tx.sigVerifiable /\ tx.sigsErr =>
            /\ k < Len(run.log)
            /\ run.log[k + 1].ev = "ConsumeGas"
            /\ run.log[k + 1].ok =>
                /\ Len(ChargesFrom(k)) = 1
                /\ run.gas = GasBefore(k) + run.log[k + 1].n
                /\ Positions("GetAccount") = {}
                /\ IF run.log[k].op = "SimulateTx"
                   THEN /\ Len(run.log) = k + 2
                        /\ run.log[k + 2].ev = "GetSignaturesV2"
                        /\ ~run.log[k + 2].ok
                        /\ FailedAt(k + 2, ErrGetSignatures)
                        /\ NextCallsOf("consumeTxSizeGas") = {}
                   ELSE /\ Positions("GetSignaturesV2") = {}
                        /\ run.log[k + 2] =
                              Event("next", "consumeTxSizeGas", run.log[k].op,
                                    run.log[k].n + 1, TRUE)

\* The simulation of a transaction with two signers and no readable signatures
\* came back from the gas stage, the last of the chain, with the error of
\* GetSignaturesV2 and the charge for the size on the meter.
C20_Witness ==
    /\ run.op = "SimulateTx"
    /\ tx.sigsErr
    /\ Len(tx.signers) = 2
    /\ chain[Len(chain)] = "consumeTxSizeGas"
    /\ run.pc = "returned"
    /\ run.err = ErrGetSignatures
    /\ run.gas = 10 * ctx.txBytesLen
    /\ run.gas > 0

\* the call ended: the outermost handler returned, or the meter's panic left it
Ended(r) == r.pc \in {"returned", "panicked"}

NotTerminal(e) == e.ev # "terminal"

\* What the chain did with a request: how the call ended, with which response
\* and error, the gas on the meter, and everything the stages did, in order.
\* What the terminal handler answers is its own and is left out.
ChainOutcome(r) ==
    [pc |-> r.pc, resp |-> r.resp, gas |-> r.gas,
     err |-> IF r.resp = "terminal" THEN NoErr ELSE r.err,
     log |-> SelectSeq(r.log, NotTerminal)]

\* the request in flight is the first request over again
SameAsFirst == first.op = run.op /\ first.tx = tx /\ first.ctx = ctx

ParamsChanged == first # NoRequest /\ first.ctx.params # ctx.params

(***************************************************************************)
(* C17.  The parameters are read from the store at each request and are    *)
(* not kept in the chain.  When MaxMemoCharacters, TxSizeCostPerByte or    *)
(* TxSigLimit in the store differ from what an earlier request through the *)
(* same chain saw, the memo stage decides by the MaxMemoCharacters of the  *)
(* store now, and the gas stage charges for the size and for the signers   *)
(* with the TxSizeCostPerByte and the TxSigLimit of the store now.         *)
(***************************************************************************)
C17_ParamsReadAtRequestTime ==
    ParamsChanged =>
        /\ \A k \in DOMAIN run.log :
            EnteredAt(k, "validateMemo") /\ tx.hasMemo =>
                /\ PassedAt(k, "validateMemo")
                        <=> len(tx.memo) <= ctx.params.MaxMemoCharacters
                /\ ~PassedAt(k, "validateMemo") =>
                        FailedAt(k, ErrMemoTooLarge(ctx.params.MaxMemoCharacters, len(tx.memo)))
        /\ \A k \in DOMAIN run.log :
            EnteredAt(k, "consumeTxSizeGas") /\ tx.sigVerifiable =>
                /\ k < Len(run.log)
                /\ run.log[k + 1].ev = "ConsumeGas"
                /\ run.log[k + 1].n =
                        MulGas(ctx.params.TxSizeCostPerByte, Uint64(ctx.txBytesLen))
        /\ \A j \in Positions("GetAccount") :
            LET acc == ctx.accounts[run.log[j].n]
                key == IF HasOwnKey(acc) THEN acc.pubkey ELSE simSecp256k1Pubkey
            IN  EstimatedWith(j, key.stdSigLen, key.kind = "multisig")

\* The first request met MaxMemoCharacters 1, rate 1 and TxSigLimit 7 and its
\* memo of two characters was refused.  The store now holds 2, 10 and 1: the
\* same transaction passed the memo stage and its simulation was charged 10 for
\* each of its 3 bytes and 10 x (100 + 6) x 1 for its unsigned multisig signer.
C17_Witness ==
    /\ first.run.err.kind = "ErrMemoTooLarge"
    /\ first.ctx.params = [MaxMemoCharacters |-> 1, TxSizeCostPerByte |-> 1, TxSigLimit |-> 7]
    /\ ctx.params = [MaxMemoCharacters |-> 2, TxSizeCostPerByte |-> 10, TxSigLimit |-> 1]
    /\ first.tx = tx
    /\ run.op = "SimulateTx"
    /\ run.resp = "terminal"
    /\ \E k \in DOMAIN run.log : EnteredAt(k, "validateMemo") /\ PassedAt(k, "validateMemo")
    /\ ChargesFrom(1) = <<30, 1060>>
    /\ run.gas = 1090

(***************************************************************************)
(* What a request comes to when the chain handles it alone, told from its  *)
(* inputs: the operation, the transaction and the context.                 *)
(***************************************************************************)
\* what the check of a stage gives
CheckAlone(stage, op, t, c) ==
    CASE stage = "validateBasic" ->
            IF (op = "CheckTx" /\ c.recheck) \/ ~t.malformed THEN NoErr ELSE ErrValidateBasic
      [] stage = "txTimeoutHeight" -> checkTimeout(c, t)
      [] stage = "validateMemo" -> checkForValidMemo(c, t)
      [] stage = "consumeTxSizeGas" ->
            IF ~t.sigVerifiable
            THEN ErrTxDecode("invalid tx type")
            ELSE IF op = "SimulateTx" /\ t.sigsErr THEN ErrGetSignatures ELSE NoErr

\* the estimates SimulateTx asks the meter for, from signer i on
RECURSIVE EstimatesAlone(_, _, _)
EstimatesAlone(t, c, i) ==
    IF i > Len(t.signers)
    THEN <<>>
    ELSE IF i <= Len(t.sigs) /\ ~IncompleteByDefinition(t.sigs[i])
         THEN EstimatesAlone(t, c, i + 1)
         ELSE LET acc == c.accounts[t.signers[i]]
                  key == IF HasOwnKey(acc) THEN acc.pubkey ELSE simSecp256k1Pubkey
                  cost == IF key.kind = "multisig"
                          THEN MulGas(Uint64(key.stdSigLen + 6), c.params.TxSigLimit)
                          ELSE Uint64(key.stdSigLen + 6)
              IN  <<MulGas(c.params.TxSizeCostPerByte, cost)>> \o EstimatesAlone(t, c, i + 1)

\* everything the gas stage asks the meter for, in order
AskedAlone(op, t, c) ==
    <<MulGas(c.params.TxSizeCostPerByte, Uint64(c.txBytesLen))>>
        \o (IF op = "SimulateTx" /\ ~t.sigsErr THEN EstimatesAlone(t, c, 1) ELSE <<>>)

\* the amounts of a sequence that a meter standing at g takes before it refuses one
RECURSIVE Taken(_, _, _)
Taken(amounts, g, limit) ==
    IF amounts = <<>> \/ g + Head(amounts) > limit
    THEN <<>>
    ELSE <<Head(amounts)>> \o Taken(Tail(amounts), g + Head(amounts), limit)

Ending(pc, resp, err, gas) == [pc |-> pc, resp |-> resp, err |-> err, gas |-> gas]

\* how the call ends, from the stage at position p on with g on the meter
RECURSIVE EndsAlone(_, _, _, _, _, _)
EndsAlone(ch, op, t, c, p, g) ==
    IF p > Len(ch)
    THEN Ending("returned", "terminal", NoErr, g)
    ELSE IF ch[p] # "consumeTxSizeGas"
         THEN IF CheckAlone(ch[p], op, t, c) # NoErr
              THEN Ending("returned", "empty", CheckAlone(ch[p], op, t, c), g)
              ELSE EndsAlone(ch, op, t, c, p + 1, g)
         ELSE IF ~t.sigVerifiable
              THEN Ending("returned", "empty", ErrTxDecode("invalid tx type"), g)
              ELSE LET asked == AskedAlone(op, t, c)
                       taken == Taken(asked, g, c.gasLimit)
                   IN  IF taken = <<>>
                       THEN Ending("panicked", "none", ErrorOutOfGas, g)
                       ELSE IF op = "SimulateTx" /\ t.sigsErr
                            THEN Ending("returned", "empty", ErrGetSignatures, g + Sum(taken))
                            ELSE IF Len(taken) < Len(asked)
                                 THEN Ending("panicked", "none", ErrorOutOfGas, g + Sum(taken))
                                 ELSE EndsAlone(ch, op, t, c, p + 1, g + Sum(taken))

\* the call r of a request ended as the request ends alone (what the terminal
\* handler answers is its own)
EndedAsAlone(op, t, c, r) ==
    LET alone == EndsAlone(chain, op, t, c, 1, 0)
    IN  /\ r.pc = alone.pc
        /\ r.resp = alone.resp
        /\ r.gas = alone.gas
        /\ r.resp # "terminal" => r.err = alone.err

\* gas the meter accepted in a log
RECURSIVE GasTaken(_)
GasTaken(log) ==
    IF log = <<>>
    THEN 0
    ELSE (IF Head(log).ev = "ConsumeGas" /\ Head(log).ok THEN Head(log).n ELSE 0)
            + GasTaken(Tail(log))

(***************************************************************************)
(* C16.  Two calls of one chain at the same time, for different            *)
(* transactions, each with its own context and gas meter, do not disturb   *)
(* each other.  However their steps interleave, each request ends as it    *)
(* ends when the chain handles it alone with the same store (pass or       *)
(* failure, error, gas on its own meter), and the gas on a meter is at     *)
(* every moment the sum of the charges of its own request: no request      *)
(* charges the meter of the other.                                         *)
(***************************************************************************)
C16_ConcurrentCallsDoNotInterfere ==
    /\ Ended(run) => EndedAsAlone(run.op, tx, ctx, run)
    /\ Ended(other.run) => EndedAsAlone(other.op, other.tx, other.ctx, other.run)
    /\ run.gas = GasTaken(run.log)
    /\ other.run.gas = GasTaken(other.run.log)
    /\ \A k \in DOMAIN run.log : run.log[k].op = run.op
    /\ \A k \in DOMAIN other.run.log : other.run.log[k].op = other.op

\* A simulation and a delivery of different transactions under different
\* parameters are in the chain together, neither has ended: the simulation
\* stands inside its loop over the signers with the charge for its size on its
\* meter, the delivery stands before the terminal handler with its own.
C16_Witness ==
    /\ run.pc = "signers"
    /\ run.op = "SimulateTx"
    /\ other.run.pc = "call"
    /\ other.op = "DeliverTx"
    /\ other.run.pos = Len(chain) + 1
    /\ tx # other.tx
    /\ ctx.params # other.ctx.params
    /\ run.gas = 30
    /\ other.run.gas = 3

====
